---- MODULE Spec2Model ----
(***************************************************************************)
(* Model of finfinack/measure: a status store keyed by device identifier,  *)
(* fed by a websocket handler and an HTTP report handler and read by an    *)
(* HTTP collect handler.                                                    *)
(*                                                                          *)
(* The sources hold three variants of the server:                          *)
(*   "report" src/measure.go:1-176     ttlcache store, ws + report + collect*)
(*   "ttl"    src/unnamed/part_000     ttlcache store, ws + collect         *)
(*   "map"    src/measure.go:178-317   global Go map,  ws + collect         *)
(* The variant is fixed in Init; every handler is modelled per variant.    *)
(*                                                                          *)
(* The ttlcache store (github.com/jellydator/ttlcache/v2) is modelled by   *)
(* its documented behaviour at the call sites: every operation runs under  *)
(* the cache mutex, an item past its deadline is reported absent, and a    *)
(* lookup that hits touches the item (its deadline becomes now + TTL; the  *)
(* program never calls SkipTTLExtensionOnHit).                              *)
(***************************************************************************)
EXTENDS Integers, Sequences, FiniteSets, TLC

VARIABLES variant, main, now, items, conn, wmsg, rd, crashed, last

vars == <<variant, main, now, items, conn, wmsg, rd, crashed, last>>

----------------------------------------------------------------------------
(* Bounds *)

MaxTime == 4
MaxBody == 1

----------------------------------------------------------------------------
(* Program constants *)

\* flag cacheTTL, default 3*time.Hour; the clock of the model counts hours
cacheTTL == 3

MethodNotifyFullStatus == "NotifyFullStatus"
MethodNotifyStatus == "NotifyStatus"
MethodNotifyEvent == "NotifyEvent"

StatusOK == 200
StatusBadRequest == 400
StatusNotFound == 404

----------------------------------------------------------------------------
(* Values *)

Variants == {"report", "ttl", "map"}
CacheVariants == {"report", "ttl"}

\* the websocket connections
Conns == {"c1", "c2"}

Missing == "missing"
Never == -1

\* values that stand for "no payload": nothing, a nil json.RawMessage (null
\* on the wire) and a value read while it was being written
NoData == [none |-> TRUE]
Null == [null |-> TRUE]
Torn == [torn |-> TRUE]

\* device identifiers that appear in messages and query parameters
Devices == {"", "d1"}

Methods == {MethodNotifyFullStatus, MethodNotifyStatus, MethodNotifyEvent}

\* the bytes of a websocket message: a JSON envelope (its src field may be
\* missing) with further content, or bytes that do not decode
Garbage == [garbage |-> TRUE]
Envelopes == [src : Devices \cup {Missing}, dst : {"ws"}, method : Methods, params : 1..MaxBody]
Messages == Envelopes \cup {Garbage}

Temperatures == {"", "21.5"}
Humidities == {"", "40"}

\* a report request: its query parameters, or a query string that does not
\* parse (bad), for which ShouldBind returns an error
ReportRequests ==
  [id : Devices, temp : Temperatures, hum : Humidities, bad : {FALSE}] \cup
  {[id |-> "", temp |-> "", hum |-> "", bad |-> TRUE]}

\* a collect request: its device parameter ("" when absent), or bad
CollectRequests == [device : Devices, bad : {FALSE}] \cup {[device |-> "", bad |-> TRUE]}

----------------------------------------------------------------------------
(* Payloads *)

\* json.Unmarshal(message, &msg): keeps src, dst and method of the envelope,
\* a missing src decodes to the empty string; other bytes do not decode
Unmarshal(m) ==
  IF m = Garbage THEN [err |-> TRUE, Src |-> "", Dst |-> "", Method |-> ""]
  ELSE [err |-> FALSE,
        Src |-> IF m.src = Missing THEN "" ELSE m.src,
        Dst |-> m.dst,
        Method |-> m.method]

\* json.Marshal(data.ReportStatus{Device, Temperature, Humidity})
MarshalReport(r) == [device |-> r.Device, temperature |-> r.Temperature, humidity |-> r.Humidity]

ReportDocs == [device : Devices, temperature : Temperatures, humidity : Humidities]

Payloads == Envelopes \cup ReportDocs

----------------------------------------------------------------------------
(* The store: ttlcache.Cache (variants "report", "ttl") or the global map   *)
(* status (variant "map").  An entry is one key of the map with its value; *)
(* expireAt is Never for the plain map.                                     *)

Entry(k, d, exp) == [key |-> k, data |-> d, expireAt |-> exp]

ItemsOf(its, k) == {e \in its : e.key = k}

KeysOf(its) == {e.key : e \in its}

\* item.expired(): ttl > 0 and expireAt before time.Now()
expiredAtDeadline(e, t) == cacheTTL > 0 /\ e.expireAt # Never /\ e.expireAt <= t
expired(e, t) == cacheTTL > 0 /\ e.expireAt # Never /\ e.expireAt < t

\* the entries a lookup can see: present and not expired
LiveItems(its, t) == {e \in its : ~expired(e, t)}

\* item.touch(): expireAt = time.Now() + ttl
touch(e, t) == IF cacheTTL > 0 /\ e.expireAt # Never THEN [e EXCEPT !.expireAt = t + cacheTTL] ELSE e

\* Cache.Get(key): (data, nil) for a live item, which it touches;
\* (nil, ErrNotFound) otherwise
CacheGetFound(its, k, t) == ItemsOf(LiveItems(its, t), k) # {}
CacheGetData(its, k, t) == (CHOOSE e \in ItemsOf(LiveItems(its, t), k) : TRUE).data
CacheGetItemsAfter(its, k, t) ==
  {e \in its : e.key # k \/ expired(e, t)} \cup {touch(e, t) : e \in ItemsOf(LiveItems(its, t), k)}

\* Cache.GetItems(): a copy of the live items, each of them touched
CacheGetItems(its, t) == {<<e.key, e.data>> : e \in LiveItems(its, t)}
CacheGetItemsItemsAfter(its, t) ==
  {e \in its : expired(e, t)} \cup {touch(e, t) : e \in LiveItems(its, t)}

\* Cache.Set(key, data): the item of the key is replaced (or created) with
\* the data and the deadline now + TTL
CacheSetClear(its, k, d, t) == {Entry(k, d, t + cacheTTL)}
CacheSetKeepOld(its, k, d, t) == its \cup {Entry(k, d, t + cacheTTL)}
CacheSet(its, k, d, t) == {e \in its : e.key # k} \cup {Entry(k, d, t + cacheTTL)}

\* the expiration goroutine started by NewCache: removes the expired items
CacheSweep(its, t) == {e \in its : ~expired(e, t)}

\* status[key] = data on the global map
MapAssign(its, k, d) == {e \in its : e.key # k} \cup {Entry(k, d, Never)}

\* d, ok := status[key]
MapFound(its, k) == ItemsOf(its, k) # {}
MapData(its, k) == IF MapFound(its, k) THEN (CHOOSE e \in ItemsOf(its, k) : TRUE).data ELSE Null

----------------------------------------------------------------------------
(* What the last handler step did: the request or message it served, the   *)
(* store write it made (put, key, data; replaced when the write replaced a *)
(* different live payload), the responses it emitted, whether it panicked and *)
(* whether its read of the global map overlapped a write (raced).  For a   *)
(* message that is skipped, arg keeps its method only.                     *)

NoBody == [kind |-> "none", val |-> NoData]
EmptyObject == [kind |-> "empty", val |-> NoData]
StatusBody(d) == [kind |-> "status", val |-> d]
DevicesBody(m) == [kind |-> "devices", val |-> m]

Response(code, body) == [code |-> code, body |-> body]

Obs(op, arg, put, key, data, replaced, emitted, panic) ==
  [op |-> op, arg |-> arg, put |-> put, key |-> key, data |-> data, replaced |-> replaced,
   emitted |-> emitted, panic |-> panic, raced |-> FALSE]

\* a step that serves no request and no message
Idle == Obs("idle", NoData, FALSE, "", NoData, FALSE, <<>>, FALSE)

\* the live payload under key k, NoData when there is none
LivePayload(its, k, t) ==
  IF ItemsOf(LiveItems(its, t), k) # {} THEN (CHOOSE e \in ItemsOf(LiveItems(its, t), k) : TRUE).data ELSE NoData

\* a write of d under k replaces a different live payload
Replaces(its, k, d, t) == LivePayload(its, k, t) \notin {NoData, d}

----------------------------------------------------------------------------
\* the process is alive and main is inside router.Run
Serving == ~crashed /\ main = "serving"

Init ==
  /\ variant \in Variants
  /\ main = "serving"
  /\ now = 0
  /\ items = {}
  /\ conn = [c \in Conns |-> "new"]
  /\ wmsg = [c \in Conns |-> NoData]
  /\ rd = [active |-> FALSE, device |-> "", raced |-> FALSE]
  /\ crashed = FALSE
  /\ last = Idle

\* time.Now() as the cache reads it
Tick ==
  /\ Serving
  /\ variant \in CacheVariants
  /\ now < MaxTime
  /\ now' = now + 1
  /\ last' = Idle
  /\ UNCHANGED <<variant, main, items, conn, wmsg, rd, crashed>>

\* the expiration goroutine of the cache
Sweep ==
  /\ Serving
  /\ variant \in CacheVariants
  /\ \E e \in items : expired(e, now)
  /\ items' = CacheSweep(items, now)
  /\ last' = Idle
  /\ UNCHANGED <<variant, main, now, conn, wmsg, rd, crashed>>

----------------------------------------------------------------------------
(* wsHandler *)

\* upgrader.Upgrade succeeds: the read loop starts
wsUpgrade(c) ==
  /\ Serving
  /\ conn[c] = "new"
  /\ conn' = [conn EXCEPT ![c] = "open"]
  /\ last' = Idle
  /\ UNCHANGED <<variant, main, now, items, wmsg, rd, crashed>>

\* upgrader.Upgrade fails: the handler returns
wsUpgradeFail(c) ==
  /\ Serving
  /\ conn[c] = "new"
  /\ conn' = [conn EXCEPT ![c] = "closed"]
  /\ last' = Idle
  /\ UNCHANGED <<variant, main, now, items, wmsg, rd, crashed>>

\* break out of the read loop: the handler returns, the deferred c.Close() runs
wsBreakContinue(c) == conn
wsBreak(c) == [conn EXCEPT ![c] = "closed"]

\* c.ReadMessage returns an error: break, deferred c.Close()
wsReadError(c) ==
  /\ Serving
  /\ conn[c] = "open"
  /\ conn' = wsBreak(c)
  /\ last' = Idle
  /\ UNCHANGED <<variant, main, now, items, wmsg, rd, crashed>>

\* the store write of a full-status message
wsStoreNonEmpty(m, msg) == msg.Method = MethodNotifyFullStatus /\ msg.Src # ""
wsStoreAlways(m, msg) == TRUE
wsStore(m, msg) == msg.Method = MethodNotifyFullStatus

\* the payload the write stores
wsPayloadDecoded(m, msg) == [src |-> msg.Src, dst |-> msg.Dst, method |-> msg.Method, params |-> 0]
wsPayload(m, msg) == m

\* one iteration of the loop: ReadMessage returns m, Unmarshal, switch on
\* msg.Method.  On the cache the write is one Set under the cache mutex; on
\* the global map the assignment is entered here and completed by
\* wsAssignEnd.
wsMessage(c, m) ==
  LET msg == Unmarshal(m) IN
  /\ Serving
  /\ conn[c] = "open"
  /\ IF msg.err
       THEN /\ conn' = wsBreak(c)
            /\ last' = Obs("ws", m, FALSE, "", NoData, FALSE, <<>>, FALSE)
            /\ UNCHANGED <<items, wmsg>>
     ELSE IF ~wsStore(m, msg)
       THEN /\ last' = Obs("ws", [method |-> msg.Method], FALSE, msg.Src, NoData, FALSE, <<>>, FALSE)
            /\ UNCHANGED <<items, conn, wmsg>>
     ELSE IF variant \in CacheVariants
       THEN /\ items' = CacheSet(items, msg.Src, wsPayload(m, msg), now)
            /\ last' = Obs("ws", m, TRUE, msg.Src, wsPayload(m, msg),
                           Replaces(items, msg.Src, wsPayload(m, msg), now), <<>>, FALSE)
            /\ UNCHANGED <<conn, wmsg>>
       ELSE /\ conn' = [conn EXCEPT ![c] = "assign"]
            /\ wmsg' = [wmsg EXCEPT ![c] = m]
            /\ last' = Idle
            /\ UNCHANGED items
  /\ rd' = [rd EXCEPT !.raced = rd.raced \/ (rd.active /\ conn'[c] = "assign")]
  /\ UNCHANGED <<variant, main, now, crashed>>

\* status[msg.Src] = json.RawMessage(message) completes
wsAssignEnd(c) ==
  LET m == wmsg[c]
      msg == Unmarshal(m) IN
  /\ Serving
  /\ conn[c] = "assign"
  /\ items' = MapAssign(items, msg.Src, wsPayload(m, msg))
  /\ conn' = [conn EXCEPT ![c] = "open"]
  /\ wmsg' = [wmsg EXCEPT ![c] = NoData]
  /\ last' = Obs("ws", m, TRUE, msg.Src, wsPayload(m, msg),
                 Replaces(items, msg.Src, wsPayload(m, msg), now), <<>>, FALSE)
  /\ UNCHANGED <<variant, main, now, rd, crashed>>

----------------------------------------------------------------------------
(* reportHandler (variant "report") *)

\* r.Device == "" || (r.Temperature == "" && r.Humidity == "") rejects
reportRejectedNever(r) == FALSE
reportRejectedIdOnly(r) == r.Device = ""
reportRejected(r) == r.Device = "" \/ (r.Temperature = "" /\ r.Humidity = "")

\* r := data.ReportStatus{Device: ID, Temperature: Temperature, Humidity: Humidity}
reportStatusSwapped(q) == [Device |-> q.id, Temperature |-> q.hum, Humidity |-> q.temp]
reportStatus(q) == [Device |-> q.id, Temperature |-> q.temp, Humidity |-> q.hum]

reportHandler(q) ==
  LET r == reportStatus(q)
      msg == MarshalReport(r) IN
  /\ Serving
  /\ variant = "report"
  /\ IF q.bad \/ reportRejected(r)
       THEN /\ last' = Obs("report", q, FALSE, "", NoData, FALSE,
                           <<Response(StatusBadRequest, NoBody)>>, FALSE)
            /\ UNCHANGED items
       ELSE /\ items' = CacheSet(items, r.Device, msg, now)
            /\ last' = Obs("report", q, TRUE, r.Device, msg, Replaces(items, r.Device, msg, now),
                           <<Response(StatusOK, EmptyObject)>>, FALSE)
  /\ UNCHANGED <<variant, main, now, conn, wmsg, rd, crashed>>

----------------------------------------------------------------------------
(* collectHandler *)

\* src/measure.go:119-128: a miss aborts with 404 and returns
collectMissReport == [emitted |-> <<Response(StatusNotFound, NoBody)>>, panic |-> FALSE]

\* src/unnamed/part_000:87-95: a miss writes 404 {} and does not return; the
\* type assertion status.(json.RawMessage) on the nil interface then panics
collectMissTtl == [emitted |-> <<Response(StatusNotFound, EmptyObject)>>, panic |-> TRUE]

\* src/measure.go:262-270: a miss writes 404 {} and does not return; the nil
\* json.RawMessage is then written as 200 {"status": null}
collectMissMap ==
  [emitted |-> <<Response(StatusNotFound, EmptyObject), Response(StatusOK, StatusBody(Null))>>,
   panic |-> FALSE]

\* variants "report" and "ttl": one Get or one GetItems under the cache mutex
collectHandler(q) ==
  LET miss == IF variant = "report" THEN collectMissReport ELSE collectMissTtl IN
  /\ Serving
  /\ variant \in CacheVariants
  /\ IF q.bad
       THEN /\ last' = Obs("collect", q, FALSE, "", NoData, FALSE,
                           <<Response(StatusBadRequest, NoBody)>>, FALSE)
            /\ UNCHANGED items
     ELSE IF q.device # ""
       THEN IF CacheGetFound(items, q.device, now)
              THEN /\ items' = CacheGetItemsAfter(items, q.device, now)
                   /\ last' = Obs("collect", q, FALSE, q.device, NoData, FALSE,
                                  <<Response(StatusOK, StatusBody(CacheGetData(items, q.device, now)))>>,
                                  FALSE)
              ELSE /\ last' = Obs("collect", q, FALSE, q.device, NoData, FALSE,
                                  miss.emitted, miss.panic)
                   /\ UNCHANGED items
       ELSE /\ items' = CacheGetItemsItemsAfter(items, now)
            /\ last' = Obs("collect", q, FALSE, "", NoData, FALSE,
                           <<Response(StatusOK, DevicesBody(CacheGetItems(items, now)))>>, FALSE)
  /\ UNCHANGED <<variant, main, now, conn, wmsg, rd, crashed>>

\* the keys whose assignment on the global map is in progress
Writing == {Unmarshal(wmsg[c]).Src : c \in {x \in Conns : conn[x] = "assign"}}

\* variant "map": the handler binds the parameters and starts to read the
\* global map (a bad request is answered before any read)
collectBegin(q) ==
  /\ Serving
  /\ variant = "map"
  /\ ~rd.active
  /\ IF q.bad
       THEN /\ last' = Obs("collect", q, FALSE, "", NoData, FALSE,
                           <<Response(StatusBadRequest, NoBody)>>, FALSE)
            /\ UNCHANGED rd
       ELSE /\ rd' = [active |-> TRUE, device |-> q.device, raced |-> Writing # {}]
            /\ last' = Idle
  /\ UNCHANGED <<variant, main, now, items, conn, wmsg, crashed>>

\* variant "map": the read completes and the response is written.  A value
\* whose assignment is in progress is read as it was before or torn.
collectEnd ==
  /\ Serving
  /\ variant = "map"
  /\ rd.active
  /\ \E torn \in SUBSET Writing :
       LET found(k) == k \in torn \/ MapFound(items, k)
           read(k) == IF k \in torn THEN Torn ELSE MapData(items, k)
           q == [device |-> rd.device, bad |-> FALSE]
           emitted == IF rd.device # ""
                        THEN IF found(rd.device)
                               THEN <<Response(StatusOK, StatusBody(read(rd.device)))>>
                               ELSE collectMissMap.emitted
                        ELSE <<Response(StatusOK,
                                 DevicesBody({<<k, read(k)>> : k \in KeysOf(items) \cup torn}))>>
       IN last' = [Obs("collect", q, FALSE, rd.device, NoData, FALSE, emitted, FALSE)
                     EXCEPT !.raced = rd.raced]
  /\ rd' = [active |-> FALSE, device |-> "", raced |-> FALSE]
  /\ UNCHANGED <<variant, main, now, items, conn, wmsg, crashed>>

\* variant "map": two goroutines are inside the unsynchronized map at once
Racing ==
  \/ Cardinality({c \in Conns : conn[c] = "assign"}) > 1
  \/ rd.active /\ \E c \in Conns : conn[c] = "assign"

\* the Go runtime detects the concurrent map access and ends the process
\* ("fatal error: concurrent map writes" / "concurrent map read and map write")
runtimeFatal ==
  /\ Serving
  /\ variant = "map"
  /\ Racing
  /\ crashed' = TRUE
  /\ last' = Idle
  /\ UNCHANGED <<variant, main, now, items, conn, wmsg, rd>>

----------------------------------------------------------------------------
(* main: router.Run blocks while the server serves.  The older variants    *)
(* ("ttl", "map") call signal.Notify and start the goroutine that calls    *)
(* Server.Shutdown only after router.Run has returned, and main returns    *)
(* right after; the variant "report" has no signal handling.               *)

\* the variants whose main has the signal code after router.Run
SignalVariants == {"ttl", "map"}

\* the process has ended: its memory and its connections are gone
exit(how) ==
  /\ main' = how
  /\ items' = {}
  /\ conn' = [c \in Conns |-> "closed"]
  /\ wmsg' = [c \in Conns |-> NoData]
  /\ rd' = [active |-> FALSE, device |-> "", raced |-> FALSE]
  /\ last' = Idle
  /\ UNCHANGED <<variant, now, crashed>>

\* router.Run / router.RunTLS returns: the listener could not be set up
runReturns ==
  /\ Serving
  /\ now = 0 /\ items = {} /\ last = Idle /\ ~rd.active
  /\ \A c \in Conns : conn[c] = "new"
  /\ main' = "returned"
  /\ UNCHANGED <<variant, now, items, conn, wmsg, rd, crashed, last>>

\* signal.Notify(c, os.Interrupt, syscall.SIGTERM); go func() { <-c ... }()
mainNotify ==
  /\ ~crashed
  /\ main = "returned"
  /\ variant \in SignalVariants
  /\ main' = "notified"
  /\ UNCHANGED <<variant, now, items, conn, wmsg, rd, crashed, last>>

\* main returns and the process ends
mainReturn ==
  /\ ~crashed
  /\ \/ main = "notified"
     \/ main = "returned" /\ variant \notin SignalVariants
  /\ exit("exited")

\* a signal arrives while the goroutine waits on c: Server.Shutdown,
\* glog.Flush, os.Exit(1)
signalShutdown ==
  /\ ~crashed
  /\ main = "notified"
  /\ exit("shutdown")

\* the channels a signal is delivered to at this point of main
signalHandler == main = "notified"

\* a signal arrives while no handler is registered: the Go runtime ends
\* the process (default action of SIGINT and SIGTERM)
signalKill ==
  /\ ~crashed
  /\ main \in {"serving", "returned", "notified"}
  /\ ~signalHandler
  /\ exit("killed")

----------------------------------------------------------------------------
Next ==
  \/ Tick
  \/ Sweep
  \/ \E c \in Conns : wsUpgrade(c)
  \/ \E c \in Conns : wsUpgradeFail(c)
  \/ \E c \in Conns : wsReadError(c)
  \/ \E c \in Conns, m \in Messages : wsMessage(c, m)
  \/ \E c \in Conns : wsAssignEnd(c)
  \/ \E q \in ReportRequests : reportHandler(q)
  \/ \E q \in CollectRequests : collectHandler(q)
  \/ \E q \in CollectRequests : collectBegin(q)
  \/ collectEnd
  \/ runtimeFatal
  \/ runReturns
  \/ mainNotify
  \/ mainReturn
  \/ signalShutdown
  \/ signalKill

Spec == Init /\ [][Next]_vars

\* every handler runs in a goroutine of its own, and the Go scheduler lets a
\* runnable goroutine run: a handler that has entered the map completes its
\* access unless the process ends first
FairSpec ==
  /\ Spec
  /\ WF_vars(collectEnd)
  /\ \A c \in Conns : WF_vars(wsAssignEnd(c))

----------------------------------------------------------------------------
(* Claims *)

\* the deadline of entry e has not passed at time t
NotPassed(e, t) == e.expireAt = Never \/ e.expireAt >= t

\* the last step answered a query for one device / for all devices
SingleQuery(l) == l.op = "collect" /\ ~l.arg.bad /\ l.arg.device # ""
AllQuery(l) == l.op = "collect" /\ ~l.arg.bad /\ l.arg.device = ""

\* the src of an envelope as a store key
SrcKey(m) == IF m.src = Missing THEN "" ELSE m.src

\* C1: a put for d (from the websocket or the report handler) replaces the
\* payload of d: right after it the live payload of d is the one just put,
\* the live payload of d changes in no step other than a put for d or its
\* expiry, a query for d that hits returns the live payload, and the store
\* never holds two entries for one device identifier.
C1_Step ==
  /\ Cardinality(KeysOf(items')) = Cardinality(items')
  /\ last'.put => LivePayload(items', last'.key, now') = last'.data
  /\ \A e \in LiveItems(items', now') :
       \/ last'.put /\ last'.key = e.key
       \/ e.data = LivePayload(items, e.key, now)
  /\ (SingleQuery(last') /\ ~last'.raced /\ LivePayload(items, last'.arg.device, now) # NoData)
       => last'.emitted = <<Response(StatusOK, StatusBody(LivePayload(items, last'.arg.device, now)))>>

C1_ReplaceSemantics == [][C1_Step]_vars

\* a report has just replaced a different live payload
C1_Witness ==
  /\ last.op = "report" /\ last.put
  /\ last.replaced
  /\ LivePayload(items, last.key, now) = last.data

\* C2 (as claimed): on the cache, the deadline of an entry is the time of its
\* last put plus the TTL: a step leaves every entry as it is, or removes it,
\* or is a put for its key that sets the deadline to now + TTL; so a query
\* never moves a deadline and a get later than put time + TTL misses.
C2_ClaimStep ==
  variant \in CacheVariants =>
    \A e \in items' :
      \/ e \in items
      \/ last'.put /\ last'.key = e.key /\ e.expireAt = now' + cacheTTL

C2_DeadlineIsPutPlusTTL == [][C2_ClaimStep]_vars

\* C3: a query returns exactly the entries whose deadline has not passed
\* (an entry past its deadline is not returned even while it is still in the
\* store), and no step removes an entry whose deadline has not passed.
C3_Step ==
  LET q == last'.arg
      em == last'.emitted
      live == {e \in items : NotPassed(e, now)} IN
  /\ main' = "serving" => \A e \in live : \E f \in items' : f.key = e.key
  /\ (SingleQuery(last') /\ ~last'.raced) =>
       IF \E e \in live : e.key = q.device
         THEN \E e \in live : e.key = q.device /\ em = <<Response(StatusOK, StatusBody(e.data))>>
         ELSE \A i \in 1..Len(em) : em[i].body.val \notin Payloads
  /\ (AllQuery(last') /\ ~last'.raced) =>
       em = <<Response(StatusOK, DevicesBody({<<e.key, e.data>> : e \in live}))>>

C3_ExpiryInvariant == [][C3_Step]_vars

\* a query for a device missed while the expired entry of that device was
\* still in the store
C3_Witness ==
  /\ SingleQuery(last)
  /\ last.emitted[1].code = StatusNotFound
  /\ \E e \in items : e.key = last.arg.device /\ e.expireAt # Never /\ e.expireAt < now

\* C4 (as claimed): writes are serialized (at most one goroutine is inside a
\* write of the store's mapping) and the process never crashes.
C4_WritesSerialized ==
  /\ ~crashed
  /\ Cardinality({c \in Conns : conn[c] = "assign"}) <= 1

\* C5 (as claimed): no read of the store's mapping overlaps a write of it,
\* and no response carries a torn payload.
C5_ReadsAtomic ==
  /\ ~(rd.active /\ \E c \in Conns : conn[c] = "assign")
  /\ \A i \in 1..Len(last.emitted) :
       IF last.emitted[i].body.kind = "devices"
         THEN \A kv \in last.emitted[i].body.val : kv[2] # Torn
         ELSE last.emitted[i].body.val # Torn

\* C6: a decodable message whose method is not NotifyFullStatus leaves the
\* store and the connection as they are and emits nothing; the websocket
\* handler writes the store only for NotifyFullStatus.
C6_Step ==
  /\ (last'.op = "ws" /\ last'.arg # Garbage /\ last'.arg.method # MethodNotifyFullStatus)
       => /\ items' = items
          /\ conn' = conn
          /\ ~last'.put
          /\ last'.emitted = <<>>
          /\ ~last'.panic
  /\ (last'.op = "ws" /\ last'.put) => last'.arg.method = MethodNotifyFullStatus

C6_OnlyFullStatusWrites == [][C6_Step]_vars

\* a NotifyStatus message was skipped on a store that holds other entries,
\* and its device has no live entry
C6_Witness ==
  /\ last.op = "ws" /\ last.arg # Garbage
  /\ last.arg.method = MethodNotifyStatus
  /\ items # {}
  /\ LivePayload(items, last.key, now) = NoData

\* C7: a NotifyFullStatus message m is stored whole under its src, and a
\* query for one device that hits returns the stored bytes under "status".
C7_WholeMessageStored ==
  /\ (last.op = "ws" /\ last.arg # Garbage /\ last.arg.method = MethodNotifyFullStatus) => last.put
  /\ (last.op = "ws" /\ last.put) =>
       /\ last.arg \in Envelopes
       /\ last.key = SrcKey(last.arg)
       /\ last.data = last.arg
       /\ \E e \in items : e.key = last.key /\ e.data = last.arg
  /\ (SingleQuery(last) /\ ~last.raced /\ Len(last.emitted) = 1 /\ last.emitted[1].code = StatusOK)
       => /\ LivePayload(items, last.arg.device, now) # NoData
          /\ last.emitted[1].body = StatusBody(LivePayload(items, last.arg.device, now))

\* a query returned a stored websocket message
C7_Witness ==
  /\ SingleQuery(last)
  /\ Len(last.emitted) = 1
  /\ last.emitted[1].code = StatusOK
  /\ last.emitted[1].body.kind = "status"
  /\ last.emitted[1].body.val \in Envelopes

\* C8: a report changes the store iff it is accepted: a request that does
\* not bind, or has no id, or has neither temp nor hum, ends with 400 and
\* the store as before; any other puts the document under the id (deadline
\* now + TTL, other entries untouched) and answers 200 {}.
C8_Step ==
  last'.op = "report" =>
    LET q == last'.arg
        accepted == ~q.bad /\ q.id # "" /\ ~(q.temp = "" /\ q.hum = "")
        doc == [device |-> q.id, temperature |-> q.temp, humidity |-> q.hum] IN
    IF accepted
      THEN /\ last'.put /\ last'.key = q.id /\ last'.data = doc
           /\ items' = {e \in items : e.key # q.id} \cup
                         {[key |-> q.id, data |-> doc, expireAt |-> now + cacheTTL]}
           /\ last'.emitted = <<Response(StatusOK, EmptyObject)>>
      ELSE /\ ~last'.put
           /\ items' = items
           /\ last'.emitted = <<Response(StatusBadRequest, NoBody)>>

C8_ReportMutatesIffAccepted == [][C8_Step]_vars

\* a report with an id but neither temp nor hum was rejected on a store
\* that holds entries
C8_Witness ==
  /\ last.op = "report" /\ ~last.put
  /\ ~last.arg.bad /\ last.arg.id # "" /\ last.arg.temp = "" /\ last.arg.hum = ""
  /\ items # {}

\* C9 (as claimed): a query for one device ends with exactly one response:
\* 200 with the payload under "status", or 404 without a status payload;
\* nothing else is emitted and the handler does not panic.
C9_SingleQueryOutcome ==
  SingleQuery(last) =>
    /\ Len(last.emitted) = 1
    /\ ~last.panic
    /\ \/ /\ last.emitted[1].code = StatusOK
          /\ last.emitted[1].body.kind = "status"
          /\ last.emitted[1].body.val \in Payloads
       \/ /\ last.emitted[1].code = StatusNotFound
          /\ last.emitted[1].body.kind # "status"

\* C10 (as claimed): a collect request leaves the store as it is: keys,
\* payloads and deadlines.
C10_ClaimStep == last'.op = "collect" => items' = items

C10_QueryReadOnly == [][C10_ClaimStep]_vars

\* C11: a connection's loop ends once and for good on the first read error or
\* undecodable message: a closed connection stays closed; the step that ends
\* a loop writes nothing to the store and leaves every other connection and
\* the request in flight as they were, so the entries written earlier stay;
\* an undecodable message always ends the loop of an open connection; and a
\* message is processed only on a connection whose loop is running.
C11_Step ==
  /\ \A c \in Conns : conn[c] = "closed" => conn'[c] = "closed"
  /\ \A c \in Conns :
       (conn[c] = "open" /\ conn'[c] = "closed" /\ main' = "serving") =>
         /\ items' = items
         /\ ~last'.put
         /\ \A d \in Conns \ {c} : conn'[d] = conn[d] /\ wmsg'[d] = wmsg[d]
         /\ rd' = rd
         /\ crashed' = crashed
  /\ last'.arg = Garbage =>
       \E c \in Conns : conn[c] = "open" /\ conn'[c] = "closed"
  /\ last'.op = "ws" => \E c \in Conns : conn[c] \in {"open", "assign"}

C11_TerminationIsTerminal == [][C11_Step]_vars

\* an undecodable message has closed one connection while the other is open
\* and an entry written earlier is in the store
C11_Witness ==
  /\ last.arg = Garbage
  /\ items # {}
  /\ \E c \in Conns : conn[c] = "closed" /\ \E d \in Conns \ {c} : conn[d] = "open"

\* C12 (as claimed): an all-devices query returns, under the devices key,
\* exactly the entries that are live at call time, each with its exact
\* payload, and no device that has no live entry.
C12_SnapshotComplete ==
  AllQuery(last) =>
    last.emitted =
      <<Response(StatusOK, DevicesBody({<<e.key, e.data>> : e \in LiveItems(items, now)}))>>

\* C13: a put for one device leaves the entry of every other device as it
\* was (presence, payload and deadline), so a get for another device finds
\* the same payload right before and right after the put.
C13_Step ==
  last'.put =>
    /\ {e \in items' : e.key # last'.key} = {e \in items : e.key # last'.key}
    /\ \A k \in Devices \ {last'.key} : LivePayload(items', k, now') = LivePayload(items, k, now)

C13_Isolation == [][C13_Step]_vars

\* a put has just been made while a live entry of another device is stored
C13_Witness ==
  /\ last.put
  /\ \E e \in LiveItems(items, now) : e.key # last.key

\* C16: an accepted report for device d with temperature t and humidity h
\* leaves under key d a live document of exactly these three fields; and a
\* single-device query for d that finds a report document returns it as it
\* is stored, with device d and the strings as they were given.
C16_Step ==
  /\ (last'.op = "report" /\ last'.put) =>
       /\ last'.key = last'.arg.id
       /\ LivePayload(items', last'.arg.id, now') =
            [device |-> last'.arg.id, temperature |-> last'.arg.temp, humidity |-> last'.arg.hum]
  /\ (SingleQuery(last') /\ LivePayload(items, last'.arg.device, now) \in ReportDocs) =>
       /\ last'.emitted =
            <<Response(StatusOK, StatusBody(LivePayload(items, last'.arg.device, now)))>>
       /\ LivePayload(items, last'.arg.device, now).device = last'.arg.device

C16_ReportDocument == [][C16_Step]_vars

\* a single-device query has returned the document of a report that gave a
\* temperature and no humidity
C16_Witness ==
  /\ SingleQuery(last)
  /\ Len(last.emitted) = 1
  /\ last.emitted[1].body =
       StatusBody([device |-> last.arg.device, temperature |-> "21.5", humidity |-> ""])

\* C17: a NotifyFullStatus envelope whose source is empty or missing is
\* stored like any other: the message is not skipped, the write puts the
\* message bytes under the key "", the connection that sent it stays open,
\* the entry is live after the write, and an all-devices query made while it
\* is live (and no write is in progress) has it under "".
C17_Step ==
  /\ (last'.op = "ws" /\ last'.arg # Garbage /\ last'.key = ""
        /\ last'.arg.method = MethodNotifyFullStatus) => last'.put
  /\ (last'.op = "ws" /\ last'.put /\ last'.arg.src \in {"", Missing}) =>
       /\ last'.key = ""
       /\ last'.data = last'.arg
       /\ LivePayload(items', "", now') = last'.arg
       /\ \E c \in Conns : conn[c] \in {"open", "assign"} /\ conn'[c] = "open"
       /\ \A c \in Conns : conn'[c] = "closed" => conn[c] = "closed"
  /\ (AllQuery(last') /\ ~last'.raced /\ LivePayload(items, "", now) # NoData) =>
       /\ Len(last'.emitted) = 1
       /\ <<"", LivePayload(items, "", now)>> \in last'.emitted[1].body.val

C17_EmptySourceAccepted == [][C17_Step]_vars

\* an all-devices query has returned, under "", a full-status message that
\* had no source field, and the connection that sent it is open
C17_Witness ==
  /\ AllQuery(last)
  /\ \E c \in Conns : conn[c] = "open"
  /\ \E kv \in last.emitted[1].body.val :
       kv[1] = "" /\ kv[2] \in Envelopes /\ kv[2].src = Missing

\* a step that is a successful ingestion: a NotifyFullStatus message stored
\* under its source, or an accepted report stored under its device
C19_Ingestion(l) ==
  /\ l.put
  /\ \/ /\ l.op = "ws"
        /\ l.arg \in Envelopes
        /\ l.arg.method = MethodNotifyFullStatus
        /\ l.key = SrcKey(l.arg)
        /\ l.data = l.arg
     \/ /\ l.op = "report"
        /\ ~l.arg.bad /\ l.arg.id # "" /\ (l.arg.temp # "" \/ l.arg.hum # "")
        /\ l.key = l.arg.id
        /\ l.data = [device |-> l.arg.id, temperature |-> l.arg.temp, humidity |-> l.arg.hum]

\* C19: the store starts empty, and every entry of the store has the key and
\* the payload of a successful ingestion for that key: a step leaves the
\* payload of an entry as it was or is itself a successful ingestion of that
\* payload for that key, so no ignored message, rejected report, query or
\* connection close creates an entry or changes a payload; hence a stored
\* envelope is a NotifyFullStatus message of that source and a stored
\* document is a report of that device.
C19_Step ==
  /\ \A e \in items' :
       \/ \E f \in items : f.key = e.key /\ f.data = e.data
       \/ C19_Ingestion(last') /\ last'.key = e.key /\ last'.data = e.data
  /\ last'.put => C19_Ingestion(last') /\ \E e \in items' : e.key = last'.key /\ e.data = last'.data
  /\ \A e \in items' :
       \/ e.data \in Envelopes /\ e.data.method = MethodNotifyFullStatus /\ SrcKey(e.data) = e.key
       \/ e.data \in ReportDocs /\ e.data.device = e.key

C15_ProgressIndependent ==
  /\ rd.active ~> ~rd.active
  /\ \A c \in Conns : (conn[c] = "assign") ~> (conn[c] # "assign")

\* C14 (as claimed): a report or collect request ends with exactly one
\* response, which is a success, a validation error or a not-found, and its
\* handler does not panic.
C14_OneWellFormedResponse ==
  last.op \in {"report", "collect"} =>
    /\ Len(last.emitted) = 1
    /\ ~last.panic
    /\ last.emitted[1].code \in {StatusOK, StatusBadRequest, StatusNotFound}

\* C18 (as claimed): a signal that arrives while the server is running is
\* handled (Server.Shutdown is called before the process ends); the process
\* is never ended by a signal that found no handler.
C18_SignalLeadsToShutdown == main # "killed"

====
